---- MODULE Spec2Model ----
(***************************************************************************)
(* A model of starship's src/print.rs: prompt composition (get_prompt,     *)
(* compute_modules, handle_module, should_add_implicit_custom_module) and  *)
(* the two diagnostic renderers (timings, explain).                        *)
(*                                                                         *)
(* Text is a sequence of Unicode code points.  A grapheme cluster is a     *)
(* non-empty sequence of code points.  An Option<T> is a sequence of at    *)
(* most one T (<<>> is None, <<x>> is Some(x)).                            *)
(***************************************************************************)
EXTENDS Integers, Sequences, FiniteSets, TLC

VARIABLES
    \* ---- explain (print.rs 193-286) ----
    computed,          \* the Vec<Module> returned by compute_modules(&context)
    term_dims,         \* term_size::dimensions() columns, as an Option
    e_pc,              \* position of explain: "start", "info", "wrap", "done"
    infos,             \* Vec<ModuleInfo> `modules`
    max_module_width,  \* print.rs 222
    desc_width,        \* print.rs 228-231, an Option<usize>
    idx,               \* index of `info` in the `for info in modules` loop
    gi,                \* index of `g` in info.desc.graphemes(true)
    current_pos,       \* print.rs 237
    escaping,          \* print.rs 238
    out,               \* everything printed to stdout so far
    trace,             \* what the wrap loop did with each grapheme of the current description
    \* ---- timings (print.rs 147-191) ----
    t_pc,              \* position of timings: "start", "done"
    t_rows,            \* Vec<ModuleTiming> `modules`, after the sort
    t_out,             \* everything timings printed
    \* ---- get_prompt and compute_modules (print.rs 63-135, 288-396) ----
    cmd,               \* the entry point running: "prompt", "modules" or "module"
    shell,             \* context.shell
    term_dumb,         \* the environment has TERM=dumb
    format,            \* config.format and whether StringFormatter::new accepts it
    add_newline,       \* config.add_newline
    disabled,          \* the builtin modules whose configuration has disabled = true
    custom_cfg,        \* the `disabled` entry of each custom module's configuration
    absent,            \* the modules whose collaborator returns None in this context
    p_pc,              \* position: "start", "map", "par", "done"
    pending,           \* template variables the formatter has not mapped yet
    mapped,            \* the formatter's variable map: variable -> Option<Vec<Segment>>
    task,              \* par_iter over PROMPT_ORDER: "idle", "running", "done" per item
    results,           \* the Vec<Segment> each finished item produced
    completion,        \* the items in the order they finished
    calls,             \* how often each module collaborator has been invoked
    raw,               \* buf after line 125, before the tcsh post-processing
    buf,               \* the String get_prompt returns
    prompt_order       \* the Vec<Module> compute_modules returns

t_vars == <<t_pc, t_rows, t_out>>

p_vars == <<cmd, shell, term_dumb, format, add_newline, disabled, custom_cfg, absent,
            p_pc, pending, mapped, task, results, completion, calls, raw, buf,
            prompt_order>>

e_vars == <<computed, term_dims, e_pc, infos, max_module_width, desc_width,
            idx, gi, current_pos, escaping, out, trace>>

vars == <<e_vars, t_vars, p_vars>>

-----------------------------------------------------------------------------
(* Bounds of the model *)

\* longest description drawn for the wrap loop
MaxDescLen == 3
\* largest description-column width drawn for the wrap loop
MaxWrapWidth == 3
\* most modules in the list handed to explain
MaxInfos == 2
\* most modules in the list handed to timings
MaxTimed == 3

-----------------------------------------------------------------------------
(* Text helpers *)

Min(a, b) == IF a <= b THEN a ELSE b

Max(a, b) == IF a >= b THEN a ELSE b

SetMax(S) == IF S = {} THEN 0 ELSE CHOOSE x \in S : \A y \in S : y <= x

RECURSIVE Cat(_)
\* concatenation of a sequence of sequences (flat_map / join(""))
Cat(ss) == IF ss = <<>> THEN <<>> ELSE Head(ss) \o Cat(Tail(ss))

\* " ".repeat(n)
Repeat(c, n) == [k \in 1..n |-> c]

ESC == <<27>>
NL == <<10>>
SP == <<32>>

\* &str ordering: lexicographic on code points, a proper prefix is smaller
StrLeq(a, b) ==
    LET n == Min(Len(a), Len(b))
        d == {k \in 1..n : a[k] # b[k]}
    IN  IF d = {} THEN Len(a) <= Len(b)
        ELSE LET k == CHOOSE x \in d : \A y \in d : x <= y IN a[k] < b[k]

\* (lo..=hi).contains(&g) on string slices
RangeContains(lo, hi, g) == StrLeq(lo, g) /\ StrLeq(g, hi)

\* the code points of width 0 in the table of UnicodeWidthChar::width, as
\* inclusive ranges (Unicode 15.1): Default_Ignorable_Code_Point (soft
\* hyphen, zero width space and joiners, variation selectors, the tag
\* plane), Grapheme_Extend (nonspacing and enclosing marks and the spacing
\* marks that extend a cluster), the Hangul medial and final jamo, the
\* prepended marks U+0605, U+070F, U+0890, U+0891, U+08E2, the repha-like
\* letters that begin a cluster, and U+A8FA; not U+115F and not U+2D7F
ZERO_WIDTH ==
    { <<173, 173>>, <<768, 879>>, <<1155, 1161>>, <<1425, 1469>>, <<1471, 1471>>,
     <<1473, 1474>>, <<1476, 1477>>, <<1479, 1479>>, <<1541, 1541>>, <<1552, 1562>>,
     <<1564, 1564>>, <<1611, 1631>>, <<1648, 1648>>, <<1750, 1756>>, <<1759, 1764>>,
     <<1767, 1768>>, <<1770, 1773>>, <<1807, 1807>>, <<1809, 1809>>, <<1840, 1866>>,
     <<1958, 1968>>, <<2027, 2035>>, <<2045, 2045>>, <<2070, 2073>>, <<2075, 2083>>,
     <<2085, 2087>>, <<2089, 2093>>, <<2137, 2139>>, <<2192, 2193>>, <<2200, 2207>>,
     <<2250, 2306>>, <<2362, 2362>>, <<2364, 2364>>, <<2369, 2376>>, <<2381, 2381>>,
     <<2385, 2391>>, <<2402, 2403>>, <<2433, 2433>>, <<2492, 2492>>, <<2494, 2494>>,
     <<2497, 2500>>, <<2509, 2509>>, <<2519, 2519>>, <<2530, 2531>>, <<2558, 2558>>,
     <<2561, 2562>>, <<2620, 2620>>, <<2625, 2626>>, <<2631, 2632>>, <<2635, 2637>>,
     <<2641, 2641>>, <<2672, 2673>>, <<2677, 2677>>, <<2689, 2690>>, <<2748, 2748>>,
     <<2753, 2757>>, <<2759, 2760>>, <<2765, 2765>>, <<2786, 2787>>, <<2810, 2815>>,
     <<2817, 2817>>, <<2876, 2876>>, <<2878, 2879>>, <<2881, 2884>>, <<2893, 2893>>,
     <<2901, 2903>>, <<2914, 2915>>, <<2946, 2946>>, <<3006, 3006>>, <<3008, 3008>>,
     <<3021, 3021>>, <<3031, 3031>>, <<3072, 3072>>, <<3076, 3076>>, <<3132, 3132>>,
     <<3134, 3136>>, <<3142, 3144>>, <<3146, 3149>>, <<3157, 3158>>, <<3170, 3171>>,
     <<3201, 3201>>, <<3260, 3260>>, <<3263, 3264>>, <<3266, 3266>>, <<3270, 3272>>,
     <<3274, 3277>>, <<3285, 3286>>, <<3298, 3299>>, <<3328, 3329>>, <<3387, 3388>>,
     <<3390, 3390>>, <<3393, 3396>>, <<3405, 3406>>, <<3415, 3415>>, <<3426, 3427>>,
     <<3457, 3457>>, <<3530, 3530>>, <<3535, 3535>>, <<3538, 3540>>, <<3542, 3542>>,
     <<3551, 3551>>, <<3633, 3633>>, <<3636, 3642>>, <<3655, 3662>>, <<3761, 3761>>,
     <<3764, 3772>>, <<3784, 3790>>, <<3864, 3865>>, <<3893, 3893>>, <<3895, 3895>>,
     <<3897, 3897>>, <<3953, 3966>>, <<3968, 3972>>, <<3974, 3975>>, <<3981, 3991>>,
     <<3993, 4028>>, <<4038, 4038>>, <<4141, 4144>>, <<4146, 4151>>, <<4153, 4154>>,
     <<4157, 4158>>, <<4184, 4185>>, <<4190, 4192>>, <<4209, 4212>>, <<4226, 4226>>,
     <<4229, 4230>>, <<4237, 4237>>, <<4253, 4253>>, <<4448, 4607>>, <<4957, 4959>>,
     <<5906, 5908>>, <<5938, 5939>>, <<5970, 5971>>, <<6002, 6003>>, <<6068, 6069>>,
     <<6071, 6077>>, <<6086, 6086>>, <<6089, 6099>>, <<6109, 6109>>, <<6155, 6159>>,
     <<6277, 6278>>, <<6313, 6313>>, <<6432, 6434>>, <<6439, 6440>>, <<6450, 6450>>,
     <<6457, 6459>>, <<6679, 6680>>, <<6683, 6683>>, <<6742, 6742>>, <<6744, 6750>>,
     <<6752, 6752>>, <<6754, 6754>>, <<6757, 6764>>, <<6771, 6780>>, <<6783, 6783>>,
     <<6832, 6862>>, <<6912, 6915>>, <<6964, 6973>>, <<6978, 6979>>, <<7019, 7027>>,
     <<7040, 7041>>, <<7074, 7077>>, <<7080, 7081>>, <<7083, 7085>>, <<7142, 7142>>,
     <<7144, 7145>>, <<7149, 7149>>, <<7151, 7153>>, <<7212, 7219>>, <<7222, 7223>>,
     <<7376, 7378>>, <<7380, 7392>>, <<7394, 7400>>, <<7405, 7405>>, <<7412, 7412>>,
     <<7416, 7417>>, <<7616, 7679>>, <<8203, 8207>>, <<8234, 8238>>, <<8288, 8303>>,
     <<8400, 8432>>, <<11503, 11505>>, <<11744, 11775>>, <<12330, 12335>>,
     <<12441, 12442>>, <<12644, 12644>>, <<42607, 42610>>, <<42612, 42621>>,
     <<42654, 42655>>, <<42736, 42737>>, <<43010, 43010>>, <<43014, 43014>>,
     <<43019, 43019>>, <<43045, 43046>>, <<43052, 43052>>, <<43204, 43205>>,
     <<43232, 43249>>, <<43258, 43258>>, <<43263, 43263>>, <<43302, 43309>>,
     <<43335, 43345>>, <<43392, 43394>>, <<43443, 43443>>, <<43446, 43449>>,
     <<43452, 43453>>, <<43493, 43493>>, <<43561, 43566>>, <<43569, 43570>>,
     <<43573, 43574>>, <<43587, 43587>>, <<43596, 43596>>, <<43644, 43644>>,
     <<43696, 43696>>, <<43698, 43700>>, <<43703, 43704>>, <<43710, 43711>>,
     <<43713, 43713>>, <<43756, 43757>>, <<43766, 43766>>, <<44005, 44005>>,
     <<44008, 44008>>, <<44013, 44013>>, <<55216, 55238>>, <<55243, 55291>>,
     <<64286, 64286>>, <<65024, 65039>>, <<65056, 65071>>, <<65279, 65279>>,
     <<65438, 65440>>, <<65520, 65528>>, <<66045, 66045>>, <<66272, 66272>>,
     <<66422, 66426>>, <<68097, 68099>>, <<68101, 68102>>, <<68108, 68111>>,
     <<68152, 68154>>, <<68159, 68159>>, <<68325, 68326>>, <<68900, 68903>>,
     <<69291, 69292>>, <<69373, 69375>>, <<69446, 69456>>, <<69506, 69509>>,
     <<69633, 69633>>, <<69688, 69702>>, <<69744, 69744>>, <<69747, 69748>>,
     <<69759, 69761>>, <<69811, 69814>>, <<69817, 69818>>, <<69826, 69826>>,
     <<69888, 69890>>, <<69927, 69931>>, <<69933, 69940>>, <<70003, 70003>>,
     <<70016, 70017>>, <<70070, 70078>>, <<70082, 70083>>, <<70089, 70092>>,
     <<70095, 70095>>, <<70191, 70193>>, <<70196, 70196>>, <<70198, 70199>>,
     <<70206, 70206>>, <<70209, 70209>>, <<70367, 70367>>, <<70371, 70378>>,
     <<70400, 70401>>, <<70459, 70460>>, <<70462, 70462>>, <<70464, 70464>>,
     <<70487, 70487>>, <<70502, 70508>>, <<70512, 70516>>, <<70712, 70719>>,
     <<70722, 70724>>, <<70726, 70726>>, <<70750, 70750>>, <<70832, 70832>>,
     <<70835, 70840>>, <<70842, 70842>>, <<70845, 70845>>, <<70847, 70848>>,
     <<70850, 70851>>, <<71087, 71087>>, <<71090, 71093>>, <<71100, 71101>>,
     <<71103, 71104>>, <<71132, 71133>>, <<71219, 71226>>, <<71229, 71229>>,
     <<71231, 71232>>, <<71339, 71339>>, <<71341, 71341>>, <<71344, 71349>>,
     <<71351, 71351>>, <<71453, 71455>>, <<71458, 71461>>, <<71463, 71467>>,
     <<71727, 71735>>, <<71737, 71738>>, <<71984, 71984>>, <<71995, 71996>>,
     <<71998, 71999>>, <<72001, 72001>>, <<72003, 72003>>, <<72148, 72151>>,
     <<72154, 72155>>, <<72160, 72160>>, <<72193, 72202>>, <<72243, 72248>>,
     <<72250, 72254>>, <<72263, 72263>>, <<72273, 72278>>, <<72281, 72283>>,
     <<72324, 72342>>, <<72344, 72345>>, <<72752, 72758>>, <<72760, 72765>>,
     <<72767, 72767>>, <<72850, 72871>>, <<72874, 72880>>, <<72882, 72883>>,
     <<72885, 72886>>, <<73009, 73014>>, <<73018, 73018>>, <<73020, 73021>>,
     <<73023, 73031>>, <<73104, 73105>>, <<73109, 73109>>, <<73111, 73111>>,
     <<73459, 73460>>, <<73472, 73474>>, <<73526, 73530>>, <<73536, 73536>>,
     <<73538, 73538>>, <<78912, 78912>>, <<78919, 78933>>, <<92912, 92916>>,
     <<92976, 92982>>, <<94031, 94031>>, <<94095, 94098>>, <<94180, 94180>>,
     <<113821, 113822>>, <<113824, 113827>>, <<118528, 118573>>, <<118576, 118598>>,
     <<119141, 119141>>, <<119143, 119145>>, <<119150, 119170>>, <<119173, 119179>>,
     <<119210, 119213>>, <<119362, 119364>>, <<121344, 121398>>, <<121403, 121452>>,
     <<121461, 121461>>, <<121476, 121476>>, <<121499, 121503>>, <<121505, 121519>>,
     <<122880, 122886>>, <<122888, 122904>>, <<122907, 122913>>, <<122915, 122916>>,
     <<122918, 122922>>, <<123023, 123023>>, <<123184, 123190>>, <<123566, 123566>>,
     <<123628, 123631>>, <<124140, 124143>>, <<125136, 125142>>, <<125252, 125258>>,
     <<917504, 921599>> }

\* the code points of width 2 in the table of UnicodeWidthChar::width, as
\* inclusive ranges (Unicode 15.1): East Asian Wide and Fullwidth that are
\* not of width 0, and U+17A4
WIDE ==
    { <<4352, 4447>>, <<6052, 6052>>, <<8986, 8987>>, <<9001, 9002>>, <<9193, 9196>>,
     <<9200, 9200>>, <<9203, 9203>>, <<9725, 9726>>, <<9748, 9749>>, <<9800, 9811>>,
     <<9855, 9855>>, <<9875, 9875>>, <<9889, 9889>>, <<9898, 9899>>, <<9917, 9918>>,
     <<9924, 9925>>, <<9934, 9934>>, <<9940, 9940>>, <<9962, 9962>>, <<9970, 9971>>,
     <<9973, 9973>>, <<9978, 9978>>, <<9981, 9981>>, <<9989, 9989>>, <<9994, 9995>>,
     <<10024, 10024>>, <<10060, 10060>>, <<10062, 10062>>, <<10067, 10069>>,
     <<10071, 10071>>, <<10133, 10135>>, <<10160, 10160>>, <<10175, 10175>>,
     <<11035, 11036>>, <<11088, 11088>>, <<11093, 11093>>, <<11904, 11929>>,
     <<11931, 12019>>, <<12032, 12245>>, <<12272, 12329>>, <<12336, 12350>>,
     <<12353, 12438>>, <<12443, 12543>>, <<12549, 12591>>, <<12593, 12643>>,
     <<12645, 12686>>, <<12688, 12771>>, <<12783, 12830>>, <<12832, 12871>>,
     <<12880, 19903>>, <<19968, 42124>>, <<42128, 42182>>, <<43360, 43388>>,
     <<44032, 55203>>, <<63744, 64255>>, <<65040, 65049>>, <<65072, 65106>>,
     <<65108, 65126>>, <<65128, 65131>>, <<65281, 65376>>, <<65504, 65510>>,
     <<94176, 94179>>, <<94192, 94193>>, <<94208, 100343>>, <<100352, 101589>>,
     <<101632, 101640>>, <<110576, 110579>>, <<110581, 110587>>, <<110589, 110590>>,
     <<110592, 110882>>, <<110898, 110898>>, <<110928, 110930>>, <<110933, 110933>>,
     <<110948, 110951>>, <<110960, 111355>>, <<126980, 126980>>, <<127183, 127183>>,
     <<127374, 127374>>, <<127377, 127386>>, <<127488, 127490>>, <<127504, 127547>>,
     <<127552, 127560>>, <<127568, 127569>>, <<127584, 127589>>, <<127744, 127776>>,
     <<127789, 127797>>, <<127799, 127868>>, <<127870, 127891>>, <<127904, 127946>>,
     <<127951, 127955>>, <<127968, 127984>>, <<127988, 127988>>, <<127992, 128062>>,
     <<128064, 128064>>, <<128066, 128252>>, <<128255, 128317>>, <<128331, 128334>>,
     <<128336, 128359>>, <<128378, 128378>>, <<128405, 128406>>, <<128420, 128420>>,
     <<128507, 128591>>, <<128640, 128709>>, <<128716, 128716>>, <<128720, 128722>>,
     <<128725, 128727>>, <<128732, 128735>>, <<128747, 128748>>, <<128756, 128764>>,
     <<128992, 129003>>, <<129008, 129008>>, <<129292, 129338>>, <<129340, 129349>>,
     <<129351, 129535>>, <<129648, 129660>>, <<129664, 129672>>, <<129680, 129725>>,
     <<129727, 129733>>, <<129742, 129755>>, <<129760, 129768>>, <<129776, 129784>>,
     <<131072, 196605>>, <<196608, 262141>> }

\* c lies in one of the ranges of table
InTable(c, table) == \E r \in table : r[1] <= c /\ c <= r[2]

\* UnicodeWidthChar::width: None (here -1) for the control characters, NUL
\* among them, 3 for U+17D8, 0 for the code points of ZERO_WIDTH, 2 for
\* those of WIDE, 1 otherwise
CharWidth(c) ==
    IF c < 32 \/ (c >= 127 /\ c < 160) THEN -1
    ELSE IF c = 6104 THEN 3
    ELSE IF InTable(c, ZERO_WIDTH) THEN 0
    ELSE IF InTable(c, WIDE) THEN 2
    ELSE 1

\* Grapheme::width: the widest code point of the cluster, 0 when none has a width
GraphemeWidth(g) == SetMax({CharWidth(g[k]) : k \in 1..Len(g)} \ {-1})

RECURSIVE SumWidths(_)
\* width_graphemes of a text given as its sequence of grapheme clusters
SumWidths(gs) == IF gs = <<>> THEN 0 ELSE GraphemeWidth(Head(gs)) + SumWidths(Tail(gs))

RECURSIVE Digits(_)
\* decimal digits of n, as code points
Digits(n) == IF n < 10 THEN <<48 + n>> ELSE Digits(n \div 10) \o <<48 + (n % 10)>>

\* Duration::as_millis of a duration given in microseconds
as_millis(duration) == duration \div 1000

\* str::replace(c, rep) for a one-character pattern
Replace(text, c, rep) ==
    Cat([k \in 1..Len(text) |-> IF text[k] = c THEN rep ELSE <<text[k]>>])

\* format_duration: "<1ms" below one millisecond, "{millis}ms" otherwise
format_duration(millis) ==
    IF millis = 0 THEN <<60, 49, 109, 115>> ELSE Digits(millis) \o <<109, 115>>

-----------------------------------------------------------------------------
(* explain *)

PADDING_WIDTH == 11

DONT_PRINT == {"line_break"}

\* println!("\n Here's a breakdown of your prompt:")
EXPLAIN_HEADER ==
    <<10, 32, 72, 101, 114, 101, 39, 115, 32, 97, 32, 98, 114, 101, 97, 107,
      100, 111, 119, 110, 32, 111, 102, 32, 121, 111, 117, 114, 32, 112, 114,
      111, 109, 112, 116, 58, 10>>

RECURSIVE FilterExplain(_)
\* the two filters of print.rs 207-209: not in DONT_PRINT and not empty
FilterExplain(ms) ==
    IF ms = <<>> THEN <<>>
    ELSE IF Head(ms).name \notin DONT_PRINT /\ Cat(Head(ms).value) # <<>>
         THEN <<Head(ms)>> \o FilterExplain(Tail(ms))
         ELSE FilterExplain(Tail(ms))

\* the ModuleInfo built from a module (print.rs 210-219)
ModuleInfo(m) ==
    [value     |-> Cat(m.value),
     value_len |-> SumWidths(m.value) + Len(format_duration(as_millis(m.duration))),
     desc      |-> m.desc,
     duration  |-> format_duration(as_millis(m.duration))]

\* print.rs 228-231 with the padding forgotten
DescWidthNoPadding(dims, maxw) ==
    IF dims = <<>> THEN <<>> ELSE <<dims[1] - Min(dims[1], maxw)>>

\* print.rs 228-231: width - min(width, max_module_width + PADDING_WIDTH)
DescWidth(dims, maxw) ==
    IF dims = <<>> THEN <<>>
    ELSE <<dims[1] - Min(dims[1], maxw + PADDING_WIDTH)>>

\* print.rs 248
IsEscape(g) == g = ESC

\* print.rs 253: ("a"..="z").contains(&g) || ("A"..="Z").contains(&g)
EndsEscape(g) == RangeContains(<<97>>, <<122>>, g) \/ RangeContains(<<65>>, <<90>>, g)

\* print.rs 260: wrap when hitting max width or newline
ShouldWrap(g, pos, w) == g = NL \/ pos > w

\* print.rs 262 without the trimming
TrimSpaceNever(g, w) == FALSE

\* print.rs 262: trim spaces on linebreak
TrimSpace(g, w) == g = SP /\ w > 1

\* print.rs 266: the line break and the indentation of the description column
LineBreak(maxw) == NL \o Repeat(32, maxw + PADDING_WIDTH)

\* One iteration of the wrap loop (print.rs 246-275) on grapheme g.
\* st = [current_pos, escaping, out, trace]; the trace records, for g, the
\* counter after line 258 (pos) and what the iteration did:
\* "esc" (printed verbatim, 252), "drop" (263),
\* "newline" (a break for g = "\n", 266-269), "wrap" (a break, then g, 266-274),
\* "text" (printed on the current line, 274).
WrapStep(st, g, w, maxw) ==
    LET esc == st.escaping \/ IsEscape(g)
        pos == st.current_pos + GraphemeWidth(g)
    IN  IF esc
        THEN [current_pos |-> st.current_pos,
              escaping    |-> ~EndsEscape(g),
              out         |-> st.out \o g,
              trace       |-> Append(st.trace, [g |-> g, kind |-> "esc", pos |-> st.current_pos])]
        ELSE IF ShouldWrap(g, pos, w)
        THEN IF TrimSpace(g, w)
             THEN [current_pos |-> pos,
                   escaping    |-> FALSE,
                   out         |-> st.out,
                   trace       |-> Append(st.trace, [g |-> g, kind |-> "drop", pos |-> pos])]
             ELSE IF g = NL
             THEN [current_pos |-> 0,
                   escaping    |-> FALSE,
                   out         |-> st.out \o LineBreak(maxw),
                   trace       |-> Append(st.trace, [g |-> g, kind |-> "newline", pos |-> pos])]
             ELSE [current_pos |-> 1,
                   escaping    |-> FALSE,
                   out         |-> st.out \o LineBreak(maxw) \o g,
                   trace       |-> Append(st.trace, [g |-> g, kind |-> "wrap", pos |-> pos])]
        ELSE [current_pos |-> pos,
              escaping    |-> FALSE,
              out         |-> st.out \o g,
              trace       |-> Append(st.trace, [g |-> g, kind |-> "text", pos |-> pos])]

\* print.rs 205-233: collect the ModuleInfo list, the widths, print the header
ExplainStart ==
    /\ e_pc = "start"
    /\ LET ms == FilterExplain(computed)
           is == [k \in 1..Len(ms) |-> ModuleInfo(ms[k])]
           mw == SetMax({is[k].value_len : k \in 1..Len(is)})
       IN  /\ infos' = is
           /\ max_module_width' = mw
           /\ desc_width' = DescWidth(term_dims, mw)
    /\ out' = EXPLAIN_HEADER
    /\ idx' = 1
    /\ e_pc' = "info"
    /\ UNCHANGED <<t_vars, p_vars, computed, term_dims, gi, current_pos, escaping, trace>>

\* print.rs 235-245: the wrapped branch starts a module's line
ExplainBeginWrapped ==
    /\ e_pc = "info"
    /\ idx <= Len(infos)
    /\ desc_width # <<>>
    /\ LET info == infos[idx]
       IN  out' = out \o <<32, 34>> \o info.value \o <<34, 32, 40>> \o info.duration
                      \o <<41>> \o Repeat(32, max_module_width - info.value_len)
                      \o <<32, 32, 45, 32, 32>>
    /\ current_pos' = 0
    /\ escaping' = FALSE
    /\ gi' = 1
    /\ trace' = <<>>
    /\ e_pc' = "wrap"
    /\ UNCHANGED <<t_vars, p_vars, computed, term_dims, infos, max_module_width, desc_width, idx>>

\* print.rs 246-275: one grapheme of the description
ExplainWrapGrapheme ==
    /\ e_pc = "wrap"
    /\ gi <= Len(infos[idx].desc)
    /\ LET st == WrapStep([current_pos |-> current_pos, escaping |-> escaping,
                           out |-> out, trace |-> trace],
                          infos[idx].desc[gi], desc_width[1], max_module_width)
       IN  /\ current_pos' = st.current_pos
           /\ escaping' = st.escaping
           /\ out' = st.out
           /\ trace' = st.trace
    /\ gi' = gi + 1
    /\ UNCHANGED <<t_vars, p_vars, computed, term_dims, e_pc, infos, max_module_width, desc_width, idx>>

\* print.rs 276: the description is exhausted, println!()
ExplainEndWrapped ==
    /\ e_pc = "wrap"
    /\ gi > Len(infos[idx].desc)
    /\ out' = out \o NL
    /\ idx' = idx + 1
    /\ e_pc' = "info"
    /\ UNCHANGED <<t_vars, p_vars, computed, term_dims, infos, max_module_width, desc_width,
                   gi, current_pos, escaping, trace>>

\* print.rs 277-284: no terminal width, the module is printed on one line
ExplainUnwrapped ==
    /\ e_pc = "info"
    /\ idx <= Len(infos)
    /\ desc_width = <<>>
    /\ LET info == infos[idx]
       IN  out' = out \o <<32>> \o info.value
                      \o Repeat(32, max_module_width - info.value_len)
                      \o <<32, 32, 45, 32, 32>> \o Cat(info.desc) \o NL
    /\ idx' = idx + 1
    /\ UNCHANGED <<t_vars, p_vars, computed, term_dims, e_pc, infos, max_module_width, desc_width,
                   gi, current_pos, escaping, trace>>

\* the `for info in modules` loop is exhausted
ExplainDone ==
    /\ e_pc = "info"
    /\ idx > Len(infos)
    /\ e_pc' = "done"
    /\ UNCHANGED <<t_vars, p_vars, computed, term_dims, infos, max_module_width, desc_width,
                   idx, gi, current_pos, escaping, out, trace>>

ExplainNext ==
    \/ ExplainStart
    \/ ExplainBeginWrapped
    \/ ExplainWrapGrapheme
    \/ ExplainEndWrapped
    \/ ExplainUnwrapped
    \/ ExplainDone

\* the state of explain before compute_modules has returned
ExplainIdle ==
    /\ e_pc = "start"
    /\ infos = <<>>
    /\ max_module_width = 0
    /\ desc_width = <<>>
    /\ idx = 0
    /\ gi = 0
    /\ current_pos = 0
    /\ escaping = FALSE
    /\ out = <<>>
    /\ trace = <<>>

\* get_prompt and compute_modules are not running
PromptUnused ==
    /\ cmd = "none"
    /\ shell = "bash"
    /\ term_dumb = FALSE
    /\ format = <<>>
    /\ add_newline = FALSE
    /\ disabled = {}
    /\ custom_cfg = <<>>
    /\ absent = {}
    /\ p_pc = "start"
    /\ pending = {}
    /\ mapped = <<>>
    /\ task = <<>>
    /\ results = <<>>
    /\ completion = <<>>
    /\ calls = <<>>
    /\ raw = <<>>
    /\ buf = <<>>
    /\ prompt_order = <<>>

\* the state of timings before compute_modules has returned
TimingsIdle ==
    /\ t_pc = "start"
    /\ t_rows = <<>>
    /\ t_out = <<>>

-----------------------------------------------------------------------------
(* Inputs of the wrap loop: one module, every short description *)

\* the graphemes descriptions are drawn from: ESC, newline, space, "a", "[",
\* a wide character, and "e" followed by a combining acute accent
Graphemes == {ESC, NL, SP, <<97>>, <<91>>, <<20013>>, <<101, 769>>}

RECURSIVE SeqsUpTo(_, _)
SeqsUpTo(S, n) ==
    IF n = 0 THEN {<<>>}
    ELSE LET shorter == SeqsUpTo(S, n - 1)
         IN  shorter \cup {Append(s, x) : s \in shorter, x \in S}

\* "abc def"
AbcDef == << <<97>>, <<98>>, <<99>>, <<32>>, <<100>>, <<101>>, <<102>> >>

\* a custom module whose value is "v" and whose description is d
WrapModule(d) == [name |-> "custom.foo", value |-> << <<118>> >>, desc |-> d, duration |-> 0]

\* width of its value column: "v" and "<1ms"
WrapModuleWidth == ModuleInfo(WrapModule(<<>>)).value_len

InitWrap ==
    /\ ExplainIdle
    /\ TimingsIdle
    /\ PromptUnused
    /\ \/ /\ \E d \in SeqsUpTo(Graphemes, MaxDescLen) : computed = <<WrapModule(d)>>
          /\ \E w \in 0..MaxWrapWidth : term_dims = <<WrapModuleWidth + PADDING_WIDTH + w>>
       \/ /\ computed = <<WrapModule(AbcDef)>>
          /\ \E w \in {3, 5} : term_dims = <<WrapModuleWidth + PADDING_WIDTH + w>>
       \/ /\ \E d \in SeqsUpTo(Graphemes, 1) : computed = <<WrapModule(d)>>
          /\ term_dims = <<>>

SpecWrap == InitWrap /\ [][ExplainNext]_vars

-----------------------------------------------------------------------------
(* Properties of the wrap loop *)

Last(s) == s[Len(s)]

\* g is an ASCII letter: one code point, a-z or A-Z
IsLetterChar(g) ==
    Len(g) = 1 /\ ((g[1] >= 97 /\ g[1] <= 122) \/ (g[1] >= 65 /\ g[1] <= 90))

\* the wrap loop has consumed the whole description of the current module
WrapLoopDone == e_pc = "wrap" /\ gi > Len(infos[idx].desc)

\* s ends with t
EndsWith(s, t) == Len(t) <= Len(s) /\ SubSeq(s, Len(s) - Len(t) + 1, Len(s)) = t

\* the description of the module explain is printing
CurrentDesc == infos[idx].desc

\* "abc", a line break with its indentation, "def"
AbcBreakDef == <<97, 98, 99>> \o LineBreak(WrapModuleWidth) \o <<100, 101, 102>>

\* C7 as stated: with wrap width 5 the description "abc def" is printed as
\* "abc", a line break and the indentation, "def".
C7_AsStated ==
    (WrapLoopDone /\ CurrentDesc = AbcDef /\ desc_width = <<5>>)
        => EndsWith(out, AbcBreakDef)

\* C7 (amended): with wrap width 3 the description "abc def" is printed as
\* "abc", a line break and the indentation, "def" (the boundary space is
\* dropped); and for every description and every wrap width > 1, a space
\* that makes the counter exceed the width is dropped: it is printed neither
\* before the line break nor at the start of the next line.
C7_BoundarySpaceDropped ==
    /\ (WrapLoopDone /\ CurrentDesc = AbcDef /\ desc_width = <<3>>)
           => EndsWith(out, AbcBreakDef)
    /\ (e_pc = "wrap" /\ desc_width[1] > 1)
           => \A k \in 1..Len(trace) :
                 (trace[k].g = SP /\ trace[k].kind # "esc" /\ trace[k].pos > desc_width[1])
                     => trace[k].kind = "drop"

\* C7 witness: "abc def" wrapped at width 3, the space dropped and "d" wrapped
C7_Witness ==
    /\ WrapLoopDone
    /\ CurrentDesc = AbcDef
    /\ desc_width = <<3>>
    /\ trace[4].kind = "drop"
    /\ trace[5].kind = "wrap"

\* display width of the graphemes printed on the current line of the
\* description column, escape sequences excluded
RECURSIVE LineWidth(_)
LineWidth(tr) ==
    IF tr = <<>> THEN 0
    ELSE LET e == Last(tr)
             before == SubSeq(tr, 1, Len(tr) - 1)
         IN  CASE e.kind = "newline" -> 0
               [] e.kind = "wrap" -> GraphemeWidth(e.g)
               [] e.kind = "text" -> LineWidth(before) + GraphemeWidth(e.g)
               [] OTHER -> LineWidth(before)

\* C10: for every wrap width W >= 1, after a grapheme is printed the display
\* width of the current line is at most W, and current_pos equals that width.
C10_LineFitsWidth ==
    (/\ e_pc = "wrap"
     /\ desc_width[1] >= 1
     /\ trace # <<>>
     /\ Last(trace).kind \in {"text", "wrap"})
        => /\ LineWidth(trace) <= desc_width[1]
           /\ current_pos = LineWidth(trace)

\* the initial state of the wrap loop (print.rs 237-238) with nothing printed
WrapInit == [current_pos |-> 0, escaping |-> FALSE, out |-> <<>>, trace |-> <<>>]

RECURSIVE WrapFrom(_, _, _, _)
\* the wrap loop run from state st over the graphemes gs
WrapFrom(st, gs, w, maxw) ==
    IF gs = <<>> THEN st ELSE WrapFrom(WrapStep(st, Head(gs), w, maxw), Tail(gs), w, maxw)

RECURSIVE StripEscapes(_)
\* gs without its complete escape sequences: each ESC up to and including
\* the first ASCII letter after it; an unterminated sequence is kept
StripEscapes(gs) ==
    IF gs = <<>> THEN <<>>
    ELSE IF Head(gs) = ESC
         THEN LET ends == {k \in 2..Len(gs) : IsLetterChar(gs[k])}
              IN  IF ends = {} THEN gs
                  ELSE LET k == CHOOSE x \in ends : \A y \in ends : x <= y
                       IN  StripEscapes(SubSeq(gs, k + 1, Len(gs)))
         ELSE <<Head(gs)>> \o StripEscapes(Tail(gs))

\* what the loop did with the graphemes outside escape sequences
VisibleEvents(tr) == SelectSeq(tr, LAMBDA e : e.kind # "esc")

\* a step of the wrap loop on a grapheme of an escape sequence prints it
\* verbatim, keeps the counter, and clears the flag exactly on an ASCII letter
C9_EscapeStep ==
    (/\ e_pc = "wrap"
     /\ gi <= Len(CurrentDesc)
     /\ (escaping \/ CurrentDesc[gi] = ESC))
        => /\ out' = out \o CurrentDesc[gi]
           /\ current_pos' = current_pos
           /\ escaping' = ~IsLetterChar(CurrentDesc[gi])

\* removing the complete escape sequences of the description changes neither
\* the line breaks nor the dropped spaces
C9_StripInvariant ==
    WrapLoopDone =>
        VisibleEvents(trace) =
            VisibleEvents(WrapFrom(WrapInit, StripEscapes(CurrentDesc),
                                   desc_width[1], max_module_width).trace)

\* C9: the escaping flag is set by ESC; while it is set every grapheme up to
\* and including the first ASCII letter is printed verbatim and leaves the
\* width counter unchanged; the flag is cleared exactly when an ASCII letter
\* is seen; so removing the complete escape sequences of a description
\* changes neither where line breaks fall nor which spaces are dropped.
C9_EscapeSequences == [][C9_EscapeStep /\ C9_StripInvariant']_vars

-----------------------------------------------------------------------------
(* Inputs of explain: lists of modules, known and unknown terminal widths *)

\* "ab cd"
DescAbCd == << <<97>>, <<98>>, <<32>>, <<99>>, <<100>> >>

\* ESC "[" "1" "m" "x" newline "y"
DescStyled == << ESC, <<91>>, <<49>>, <<109>>, <<120>>, NL, <<121>> >>

\* modules as compute_modules returns them: a builtin with a one-column
\* value, the line break, a module without output, and a custom module with
\* a wide value that took 12 ms
ExplainPool ==
    { [name |-> "directory", value |-> << <<126>> >>, desc |-> DescAbCd, duration |-> 0],
      [name |-> "line_break", value |-> << NL >>, desc |-> DescAbCd, duration |-> 0],
      [name |-> "git_branch", value |-> <<>>, desc |-> DescAbCd, duration |-> 2000],
      [name |-> "custom.foo", value |-> << <<20013>>, <<33>> >>, desc |-> DescStyled,
       duration |-> 12400] }

\* terminal widths: none, narrower than the value column, and wider
TermCols == {10, 12, 17, 19, 21}

InitExplain ==
    /\ ExplainIdle
    /\ TimingsIdle
    /\ PromptUnused
    /\ computed \in SeqsUpTo(ExplainPool, MaxInfos)
    /\ term_dims \in {<<>>} \cup {<<c>> : c \in TermCols}

SpecExplain == InitExplain /\ [][ExplainNext]_vars

\* number of newline characters of a text
CountNL(text) == Cardinality({k \in 1..Len(text) : text[k] = 10})

RECURSIVE OwnNewlines(_)
\* the newlines a list of ModuleInfo prints when each takes one line: those
\* of its value and description, and the one ending its line
OwnNewlines(is) ==
    IF is = <<>> THEN 0
    ELSE CountNL(Head(is).value) + CountNL(Cat(Head(is).desc)) + 1 + OwnNewlines(Tail(is))

\* explain has printed every module and inserted no line break of its own
NoBreakInserted ==
    e_pc = "done" => CountNL(out) = CountNL(EXPLAIN_HEADER) + OwnNewlines(infos)

\* the terminal is narrower than the value column and its padding
TooNarrow == term_dims # <<>> /\ term_dims[1] < max_module_width + PADDING_WIDTH

\* C8 as stated: when the terminal width is unknown or smaller than the
\* required minimum, every description is printed on a single line, the wrap
\* loop inserting no line break.
C8_AsStated ==
    (e_pc = "done" /\ (term_dims = <<>> \/ TooNarrow)) => NoBreakInserted

\* C8 (amended): the description width is the terminal column count minus
\* (maximum value width + 11), floored at zero, and no padding underflows;
\* when the terminal width is unknown every description is printed on a
\* single line and the wrap loop never runs; when the terminal is known but
\* narrower than the required minimum the width is 0 and the wrap loop runs,
\* breaking the line before every grapheme of nonzero width.
C8_DescWidthAndFallback ==
    /\ e_pc # "start" =>
          /\ \A k \in 1..Len(infos) : infos[k].value_len <= max_module_width
          /\ desc_width = IF term_dims = <<>> THEN <<>>
                          ELSE <<Max(0, term_dims[1] - (max_module_width + 11))>>
    /\ term_dims = <<>> => (NoBreakInserted /\ trace = <<>> /\ e_pc # "wrap")
    /\ (e_pc = "wrap" /\ TooNarrow) =>
          /\ desc_width = <<0>>
          /\ \A k \in 1..Len(trace) :
                (trace[k].kind # "esc" /\ GraphemeWidth(trace[k].g) > 0)
                    => trace[k].kind = "wrap"

\* C8 witness: no terminal width, two modules of different value widths
\* printed, each on one line
C8_Witness ==
    /\ e_pc = "done"
    /\ term_dims = <<>>
    /\ Len(infos) = 2
    /\ infos[1].value_len < infos[2].value_len

-----------------------------------------------------------------------------
(* timings *)

\* the text of a module name
NameText(name) ==
    CASE name = "directory" -> <<100, 105, 114, 101, 99, 116, 111, 114, 121>>
      [] name = "character" -> <<99, 104, 97, 114, 97, 99, 116, 101, 114>>
      [] name = "line_break" -> <<108, 105, 110, 101, 95, 98, 114, 101, 97, 107>>
      [] name = "git_branch" -> <<103, 105, 116, 95, 98, 114, 97, 110, 99, 104>>
      [] name = "custom.foo" -> <<99, 117, 115, 116, 111, 109, 46, 102, 111, 111>>
      [] name = "custom.bar" -> <<99, 117, 115, 116, 111, 109, 46, 98, 97, 114>>

\* println!("\n Here are the timings of modules in your prompt (>=1ms or output):")
TIMINGS_HEADER ==
    <<10, 32, 72, 101, 114, 101, 32, 97, 114, 101, 32, 116, 104, 101, 32, 116,
      105, 109, 105, 110, 103, 115, 32, 111, 102, 32, 109, 111, 100, 117, 108,
      101, 115, 32, 105, 110, 32, 121, 111, 117, 114, 32, 112, 114, 111, 109,
      112, 116, 32, 40, 62, 61, 49, 109, 115, 32, 111, 114, 32, 111, 117, 116,
      112, 117, 116, 41, 58, 10>>

\* print.rs 160: !module.is_empty() || module.duration.as_millis() > 0
KeepTiming(m) == Cat(m.value) # <<>> \/ as_millis(m.duration) > 0

\* print.rs 161-169: the ModuleTiming built from a module
ModuleTiming(m) ==
    [name         |-> m.name,
     name_len     |-> Len(NameText(m.name)),
     value        |-> Replace(Cat(m.value), 10, <<92, 110>>),
     duration     |-> m.duration,
     duration_len |-> Len(format_duration(as_millis(m.duration)))]

RECURSIVE TimingRows(_)
\* print.rs 158-170: filter, then map
TimingRows(ms) ==
    IF ms = <<>> THEN <<>>
    ELSE IF KeepTiming(Head(ms))
         THEN <<ModuleTiming(Head(ms))>> \o TimingRows(Tail(ms))
         ELSE TimingRows(Tail(ms))

\* print.rs 172 with the operands of cmp exchanged (ascending)
DurationOrderAsc(a, b) == a.duration < b.duration

\* print.rs 172: b.duration.cmp(&a.duration) is Less, a sorts strictly before b
DurationOrder(a, b) == a.duration > b.duration

RECURSIVE InsertSorted(_, _)
\* x placed into the sorted rows behind every row it does not strictly precede
InsertSorted(rows, x) ==
    IF rows = <<>> THEN <<x>>
    ELSE IF DurationOrder(x, Head(rows))
         THEN <<x>> \o rows
         ELSE <<Head(rows)>> \o InsertSorted(Tail(rows), x)

RECURSIVE SortRows(_)
\* print.rs 172: slice::sort_by, a stable sort
SortRows(rows) ==
    IF rows = <<>> THEN <<>>
    ELSE InsertSorted(SortRows(SubSeq(rows, 1, Len(rows) - 1)), rows[Len(rows)])

\* print.rs 182-189: one line of the table
TimingLine(t, max_name_width, max_duration_width) ==
    <<32>> \o NameText(t.name) \o Repeat(32, max_name_width - t.name_len)
        \o <<32, 32, 45, 32, 32>> \o Repeat(32, max_duration_width - t.duration_len)
        \o format_duration(as_millis(t.duration))
        \o <<32, 32, 45, 32, 32, 32, 34>> \o t.value \o <<34, 10>>

\* print.rs 147-191
Timings ==
    /\ t_pc = "start"
    /\ LET rows == SortRows(TimingRows(computed))
           max_name_width == SetMax({rows[k].name_len : k \in 1..Len(rows)})
           max_duration_width == SetMax({rows[k].duration_len : k \in 1..Len(rows)})
       IN  /\ t_rows' = rows
           /\ t_out' = TIMINGS_HEADER \o
                  Cat([k \in 1..Len(rows) |->
                          TimingLine(rows[k], max_name_width, max_duration_width)])
    /\ t_pc' = "done"
    /\ UNCHANGED <<e_vars, p_vars>>

TimingsNext == Timings

\* modules as compute_modules returns them for timings: with and without
\* output, below and above one millisecond
TimingPool ==
    { [name |-> n, value |-> v, desc |-> <<>>, duration |-> d] :
        n \in {"directory", "custom.foo"},
        v \in {<<>>, << <<120>>, NL >>},
        d \in {0, 900, 2000, 5000} }

InitTimings ==
    /\ ExplainIdle
    /\ TimingsIdle
    /\ PromptUnused
    /\ term_dims = <<>>
    /\ computed \in SeqsUpTo(TimingPool, MaxTimed)

SpecTimings == InitTimings /\ [][TimingsNext]_vars

\* the module has nonempty output or took at least 1 ms
ShownInTimings(m) == Cat(m.value) # <<>> \/ m.duration >= 1000

\* the shown modules of ms, by position
ShownAt(ms) == {k \in 1..Len(ms) : ShownInTimings(ms[k])}

\* the row of the module at position k of ms: one more than the number of
\* shown modules that took longer, or as long and come before it in ms
RowOf(ms, k) ==
    1 + Cardinality({j \in ShownAt(ms) :
                        \/ ms[j].duration > ms[k].duration
                        \/ (ms[j].duration = ms[k].duration /\ j < k)})

\* the durations of a list of modules or rows
Durations(rs) == [k \in 1..Len(rs) |-> rs[k].duration]

\* C6: the rows of timings are exactly the computed modules with nonempty
\* output or a duration of at least 1 ms, in descending order of duration,
\* modules of equal duration in their order in compute_modules' result; so
\* durations 0 ms, 5 ms, 2 ms give 5 ms, 2 ms, then 0 ms only if nonempty.
C6_TimingRows ==
    t_pc = "done" =>
        /\ Len(t_rows) = Cardinality(ShownAt(computed))
        /\ \A k \in ShownAt(computed) :
              /\ t_rows[RowOf(computed, k)].name = computed[k].name
              /\ t_rows[RowOf(computed, k)].duration = computed[k].duration
              /\ t_rows[RowOf(computed, k)].value =
                    Replace(Cat(computed[k].value), 10, <<92, 110>>)
        /\ \A i, j \in 1..Len(t_rows) : i < j => t_rows[i].duration >= t_rows[j].duration
        /\ Durations(computed) = <<0, 5000, 2000>> =>
               Durations(t_rows) = <<5000, 2000>> \o
                   (IF Cat(computed[1].value) # <<>> THEN <<0>> ELSE <<>>)

\* C6 witness: three modules computed, one without output below 1 ms left
\* out, the two others of equal duration listed in their original order
C6_Witness ==
    /\ t_pc = "done"
    /\ Len(computed) = 3
    /\ ~ShownInTimings(computed[2])
    /\ Len(t_rows) = 2
    /\ t_rows[1].duration = t_rows[2].duration
    /\ t_rows[1].name # t_rows[2].name
    /\ t_rows[1].name = computed[1].name

-----------------------------------------------------------------------------
(* Module resolution: handle_module, should_add_implicit_custom_module *)

\* crate::module::ALL_MODULES, the builtin module names (three of them)
ALL_MODULES == {"directory", "line_break", "character"}

\* crate::configs::PROMPT_ORDER, the order of the modules of $all
PROMPT_ORDER == <<"directory", "custom", "character">>

\* the custom module ids a configuration may define, in the order of the
\* [custom] table's keys
CUSTOM_IDS == <<"bar", "foo">>

\* every module a collaborator may be asked for
CollabNames == ALL_MODULES \cup {"custom.foo", "custom.bar"}

\* every name a template of the model references, in BTreeSet order
VAR_ORDER == <<"all", "character", "custom", "custom.bar", "custom.baz",
               "custom.foo", "directory", "line_break", "nosuch">>

\* format!("custom.{}", custom_module)
CustomName(id) ==
    CASE id = "foo" -> "custom.foo"
      [] id = "bar" -> "custom.bar"
      [] id = "baz" -> "custom.baz"

\* module.strip_prefix("custom."), an Option
StripCustom(module) ==
    CASE module = "custom.foo" -> <<"foo">>
      [] module = "custom.bar" -> <<"bar">>
      [] module = "custom.baz" -> <<"baz">>
      [] OTHER -> <<>>

\* a segment: its text, whether it carries a style, and the module it is of
Segment(value, styled, of) == [value |-> value, styled |-> styled, of |-> of]

\* the segments each collaborator computes: "~" "/!" for directory, a newline
\* for line_break, ">" for character, "f!" for custom.foo, "b" newline for
\* custom.bar
ModuleSegments(name) ==
    CASE name = "directory" -> <<Segment(<<126>>, TRUE, name), Segment(<<47, 33>>, FALSE, name)>>
      [] name = "line_break" -> <<Segment(<<10>>, FALSE, name)>>
      [] name = "character" -> <<Segment(<<62>>, TRUE, name)>>
      [] name = "custom.foo" -> <<Segment(<<102, 33>>, TRUE, name)>>
      [] name = "custom.bar" -> <<Segment(<<98, 10>>, FALSE, name)>>

\* modules::handle and modules::custom::module: an Option<Module>
Collaborate(name) ==
    IF name \in absent THEN <<>>
    ELSE <<[name |-> name, segments |-> ModuleSegments(name)]>>

\* context.is_module_disabled_in_config
is_module_disabled_in_config(module) == module \in disabled

\* context.config.get_custom_modules(): the configured ids, None without any
get_custom_modules ==
    LET ids == SelectSeq(CUSTOM_IDS, LAMBDA id : custom_cfg[id] # "absent")
    IN  IF ids = <<>> THEN <<>> ELSE <<ids>>

\* context.is_custom_module_disabled_in_config: None for an id without
\* configuration, else whether its `disabled` is the boolean true
is_custom_module_disabled_in_config(id) ==
    IF id \notin DOMAIN custom_cfg \/ custom_cfg[id] = "absent" THEN <<>>
    ELSE <<custom_cfg[id] = "true">>

\* print.rs 376-396 without the test of the explicit reference
ShouldAddIgnoringExplicit(custom_module, config, module_list) ==
    ~(IF config \in {"true", "false"} THEN config = "true" ELSE FALSE)

\* print.rs 376-396 without the test of `disabled`
ShouldAddIgnoringDisabled(custom_module, config, module_list) ==
    CustomName(custom_module) \notin module_list

\* print.rs 376-396; config is the module's `disabled` entry: "unset",
\* "true", "false", or "string" for a value that is no boolean
should_add_implicit_custom_module(custom_module, config, module_list) ==
    LET explicit_module_name == CustomName(custom_module)
        is_explicitly_specified == explicit_module_name \in module_list
    IN  IF is_explicitly_specified THEN FALSE
        ELSE ~(IF config \in {"true", "false"} THEN config = "true" ELSE FALSE)

\* the collaborators handle_module invokes for a variable, in order
HandleCalls(module, module_list) ==
    IF module \in ALL_MODULES
    THEN IF ~is_module_disabled_in_config(module) THEN <<module>> ELSE <<>>
    ELSE IF module = "custom"
    THEN IF get_custom_modules = <<>> THEN <<>>
         ELSE LET add == SelectSeq(get_custom_modules[1],
                            LAMBDA id : should_add_implicit_custom_module(
                                            id, custom_cfg[id], module_list))
              IN  [k \in 1..Len(add) |-> CustomName(add[k])]
    ELSE IF StripCustom(module) # <<>>
    THEN IF is_custom_module_disabled_in_config(StripCustom(module)[1]) = <<FALSE>>
         THEN <<module>> ELSE <<>>
    ELSE <<>>

\* print.rs 316-374: the Vec<Module> of a variable
handle_module(module, module_list) ==
    LET cs == HandleCalls(module, module_list)
    IN  Cat([k \in 1..Len(cs) |-> Collaborate(cs[k])])

\* .into_iter().flat_map(|module| module.segments).collect::<Vec<Segment>>()
ModuleSegs(ms) == Cat([k \in 1..Len(ms) |-> ms[k].segments])

\* calls with the invocations cs counted in
AddCalls(c, cs) ==
    [n \in CollabNames |-> c[n] + Cardinality({k \in 1..Len(cs) : cs[k] = n})]

\* formatter.get_variables(): the variables of the template, a BTreeSet
get_variables(f) == {f.tokens[k].name : k \in {j \in 1..Len(f.tokens) : f.tokens[j].kind = "var"}}

\* the BTreeSet iterated in order
InOrder(S) == SelectSeq(VAR_ORDER, LAMBDA v : v \in S)

-----------------------------------------------------------------------------
(* get_prompt *)

\* "Starship disabled due to TERM=dumb > "
DUMB_TEXT ==
    <<83, 116, 97, 114, 115, 104, 105, 112, 32, 100, 105, 115, 97, 98, 108,
      101, 100, 32, 100, 117, 101, 32, 116, 111, 32, 84, 69, 82, 77, 61, 100,
      117, 109, 98, 32, 62, 32>>

\* print.rs 78-80: "\x1b[J" for fish, nothing for the other shells
FishPrefix(sh) == IF sh = "fish" THEN <<27, 91, 74>> ELSE <<>>

\* print.rs 85-87 without the marker
FormatErrorSilent(b) == b

\* print.rs 85-87: buf.push('>')
FormatError(b) == Append(b, 62)

\* Segment::ansi_string: a styled segment is wrapped in ESC[1m and ESC[0m
AnsiString(seg) ==
    IF seg.styled THEN <<27, 91, 49, 109>> \o seg.value \o <<27, 91, 48, 109>>
    ELSE seg.value

\* ANSIStrings(&root_module.ansi_strings_for_shell(shell)) written out
AnsiStrings(segs) == Cat([k \in 1..Len(segs) |-> AnsiString(segs[k])])

\* formatter.parse(None): the literals of the template and, for each
\* variable, the segments it was mapped to (none when mapped to None)
ParseFormat(f, m) ==
    Cat([k \in 1..Len(f.tokens) |->
            IF f.tokens[k].kind = "lit"
            THEN <<Segment(f.tokens[k].text, FALSE, "format")>>
            ELSE IF m[f.tokens[k].name] = <<>> THEN <<>> ELSE m[f.tokens[k].name][1]])

\* print.rs 128-132 with the space before the escaped newline forgotten
TcshEscapeNoSpace(b) == Replace(Replace(b, 33, <<92, 33>>), 10, <<92, 110>>)

\* print.rs 128-132: buf.replace('!', "\\!"), then buf.replace('\n', " \\n")
TcshEscape(b) == Replace(Replace(b, 33, <<92, 33>>), 10, <<32, 92, 110>>)

\* print.rs 93-101 collecting the items' segments as the items finish
CollectInCompletionOrder(res, done) == Cat([k \in 1..Len(done) |-> res[done[k]]])

\* print.rs 93-101: par_iter().flat_map(..).collect::<Vec<_>>() keeps the
\* order of PROMPT_ORDER, whatever order the items finished in
Collect(res, done) == Cat([k \in 1..Len(PROMPT_ORDER) |-> res[k]])

\* print.rs 64-89: TERM=dumb, the fish workaround, parsing the format
GetPromptStart ==
    /\ p_pc = "start"
    /\ cmd = "prompt"
    /\ IF term_dumb
       THEN /\ buf' = DUMB_TEXT
            /\ p_pc' = "done"
            /\ UNCHANGED pending
       ELSE IF ~format.ok
       THEN /\ buf' = FormatError(FishPrefix(shell))
            /\ p_pc' = "done"
            /\ UNCHANGED pending
       ELSE /\ buf' = FishPrefix(shell)
            /\ p_pc' = "map"
            /\ pending' = get_variables(format)
    /\ UNCHANGED <<e_vars, t_vars, cmd, shell, term_dumb, format, add_newline, disabled,
                   custom_cfg, absent, mapped, task, results, completion, calls, raw,
                   prompt_order>>

\* print.rs 102-110: the formatter maps a variable other than `all`
MapVariable(v) ==
    /\ p_pc = "map"
    /\ v \in pending
    /\ v # "all"
    /\ IF is_module_disabled_in_config(v)
       THEN /\ mapped' = [mapped EXCEPT ![v] = <<>>]
            /\ UNCHANGED calls
       ELSE /\ mapped' = [mapped EXCEPT
                             ![v] = <<ModuleSegs(handle_module(v, get_variables(format)))>>]
            /\ calls' = AddCalls(calls, HandleCalls(v, get_variables(format)))
    /\ pending' = pending \ {v}
    /\ UNCHANGED <<e_vars, t_vars, cmd, shell, term_dumb, format, add_newline, disabled,
                   custom_cfg, absent, p_pc, task, results, completion, raw, buf,
                   prompt_order>>

\* print.rs 92-94: the formatter maps `all`, the items of PROMPT_ORDER are
\* handed to the thread pool
StartAll ==
    /\ p_pc = "map"
    /\ "all" \in pending
    /\ p_pc' = "par"
    /\ UNCHANGED <<e_vars, t_vars, cmd, shell, term_dumb, format, add_newline, disabled,
                   custom_cfg, absent, pending, mapped, task, results, completion, calls,
                   raw, buf, prompt_order>>

\* a worker takes item i
TaskStart(i) ==
    /\ p_pc = "par"
    /\ task[i] = "idle"
    /\ task' = [task EXCEPT ![i] = "running"]
    /\ UNCHANGED <<e_vars, t_vars, cmd, shell, term_dumb, format, add_newline, disabled,
                   custom_cfg, absent, p_pc, pending, mapped, results, completion, calls,
                   raw, buf, prompt_order>>

\* print.rs 95-100: the closure of item i returns its segments
TaskFinish(i) ==
    /\ p_pc = "par"
    /\ task[i] = "running"
    /\ task' = [task EXCEPT ![i] = "done"]
    /\ results' = [results EXCEPT
                      ![i] = ModuleSegs(handle_module(PROMPT_ORDER[i], get_variables(format)))]
    /\ calls' = AddCalls(calls, HandleCalls(PROMPT_ORDER[i], get_variables(format)))
    /\ completion' = Append(completion, i)
    /\ UNCHANGED <<e_vars, t_vars, cmd, shell, term_dumb, format, add_newline, disabled,
                   custom_cfg, absent, p_pc, pending, mapped, raw, buf, prompt_order>>

\* print.rs 101: every item has finished, collect() returns
CollectAll ==
    /\ p_pc = "par"
    /\ \A i \in 1..Len(PROMPT_ORDER) : task[i] = "done"
    /\ mapped' = [mapped EXCEPT !["all"] = <<Collect(results, completion)>>]
    /\ pending' = pending \ {"all"}
    /\ p_pc' = "map"
    /\ UNCHANGED <<e_vars, t_vars, cmd, shell, term_dumb, format, add_newline, disabled,
                   custom_cfg, absent, task, results, completion, calls, raw, buf,
                   prompt_order>>

\* print.rs 113-134: the root module, the leading newline, the tcsh escapes
Render ==
    /\ p_pc = "map"
    /\ pending = {}
    /\ LET text == AnsiStrings(ParseFormat(format, mapped))
           b == buf \o (IF add_newline THEN <<10>> ELSE <<>>) \o text
       IN  /\ raw' = b
           /\ buf' = IF shell = "tcsh" THEN TcshEscape(b) ELSE b
    /\ p_pc' = "done"
    /\ UNCHANGED <<e_vars, t_vars, cmd, shell, term_dumb, format, add_newline, disabled,
                   custom_cfg, absent, pending, mapped, task, results, completion, calls,
                   prompt_order>>

-----------------------------------------------------------------------------
(* compute_modules *)

\* print.rs 300-311: the loop over the variables, `all` expanded in place
ExpandVariables(vs) ==
    Cat([k \in 1..Len(vs) |-> IF vs[k] = "all" THEN PROMPT_ORDER ELSE <<vs[k]>>])

\* print.rs 288-314
ComputeModules ==
    /\ p_pc = "start"
    /\ cmd = "modules"
    /\ IF ~format.ok
       THEN /\ prompt_order' = <<>>
            /\ UNCHANGED calls
       ELSE LET names == ExpandVariables(InOrder(get_variables(format)))
                list == get_variables(format)
            IN  /\ prompt_order' =
                      Cat([k \in 1..Len(names) |-> handle_module(names[k], list)])
                /\ calls' = AddCalls(calls,
                               Cat([k \in 1..Len(names) |-> HandleCalls(names[k], list)]))
    /\ p_pc' = "done"
    /\ UNCHANGED <<e_vars, t_vars, cmd, shell, term_dumb, format, add_newline, disabled,
                   custom_cfg, absent, pending, mapped, task, results, completion, raw,
                   buf>>

-----------------------------------------------------------------------------
(* module, get_module *)

\* print.rs 137-145: modules::handle(module_name, &context) invoked without
\* any test of `disabled`; the module's styled text is printed, or nothing
\* when the collaborator returns None
GetModule(module_name) ==
    /\ p_pc = "start"
    /\ cmd = "module"
    /\ LET m == Collaborate(module_name)
       IN  buf' = IF m = <<>> THEN <<>> ELSE AnsiStrings(m[1].segments)
    /\ calls' = AddCalls(calls, <<module_name>>)
    /\ p_pc' = "done"
    /\ UNCHANGED <<e_vars, t_vars, cmd, shell, term_dumb, format, add_newline, disabled,
                   custom_cfg, absent, pending, mapped, task, results, completion, raw,
                   prompt_order>>

PromptNext ==
    \/ GetPromptStart
    \/ \E v \in pending : MapVariable(v)
    \/ StartAll
    \/ \E i \in 1..Len(PROMPT_ORDER) : TaskStart(i)
    \/ \E i \in 1..Len(PROMPT_ORDER) : TaskFinish(i)
    \/ CollectAll
    \/ Render
    \/ ComputeModules
    \/ \E module_name \in ALL_MODULES : GetModule(module_name)

-----------------------------------------------------------------------------
(* Inputs of get_prompt, compute_modules and get_module *)

Lit(text) == [kind |-> "lit", name |-> "", text |-> text]

Var(name) == [kind |-> "var", name |-> name, text |-> <<>>]

\* the templates: one that does not parse, "a!b" newline "c", "$all",
\* "$directory!$line_break$character", "$custom $custom.foo",
\* "$custom.foo$custom.baz$nosuch", "$all$custom.bar"
Formats ==
    { [ok |-> FALSE, tokens |-> <<>>],
      [ok |-> TRUE, tokens |-> <<Lit(<<97, 33, 98, 10, 99>>)>>],
      [ok |-> TRUE, tokens |-> <<Var("all")>>],
      [ok |-> TRUE, tokens |-> <<Var("directory"), Lit(<<33>>), Var("line_break"),
                                 Var("character")>>],
      [ok |-> TRUE, tokens |-> <<Var("custom"), Lit(<<32>>), Var("custom.foo")>>],
      [ok |-> TRUE, tokens |-> <<Var("custom.foo"), Var("custom.baz"), Var("nosuch")>>],
      [ok |-> TRUE, tokens |-> <<Var("all"), Var("custom.bar")>>] }

\* the state before get_prompt, compute_modules or get_module has run
PromptIdle ==
    /\ p_pc = "start"
    /\ pending = {}
    /\ mapped = [v \in {VAR_ORDER[k] : k \in 1..Len(VAR_ORDER)} |-> <<>>]
    /\ task = [i \in 1..Len(PROMPT_ORDER) |-> "idle"]
    /\ results = [i \in 1..Len(PROMPT_ORDER) |-> <<>>]
    /\ completion = <<>>
    /\ calls = [n \in CollabNames |-> 0]
    /\ raw = <<>>
    /\ buf = <<>>
    /\ prompt_order = <<>>

\* a configuration: the format, the disabled builtins, the custom modules
InitConfig ==
    /\ format \in Formats
    /\ disabled \in SUBSET {"directory", "character"}
    /\ \E foo \in {"absent", "unset", "true", "false", "string"}, bar \in {"absent", "unset", "true"} :
          custom_cfg = [id \in {"foo", "bar"} |-> IF id = "foo" THEN foo ELSE bar]
    /\ absent \in {{}, {"directory", "custom.bar"}}

InitPrompt ==
    /\ ExplainIdle
    /\ TimingsIdle
    /\ computed = <<>>
    /\ term_dims = <<>>
    /\ PromptIdle
    /\ InitConfig
    /\ \/ /\ cmd = "prompt"
          /\ shell \in {"bash", "fish", "tcsh"}
          /\ term_dumb \in BOOLEAN
          /\ add_newline \in BOOLEAN
       \/ /\ cmd \in {"modules", "module"}
          /\ shell = "bash"
          /\ term_dumb = FALSE
          /\ add_newline = FALSE

SpecPrompt == InitPrompt /\ [][PromptNext]_vars

-----------------------------------------------------------------------------
(* Properties of get_prompt and compute_modules *)

\* the variables of the template
Vars == get_variables(format)

\* get_prompt got past the TERM test and the parse of the format
PromptParsed == cmd = "prompt" /\ p_pc # "start" /\ ~term_dumb /\ format.ok

\* get_prompt has the segments of variable v
IsMapped(v) == PromptParsed /\ v \in Vars /\ v \notin pending

\* the segments of $all when the modules of PROMPT_ORDER are evaluated one
\* after another
SequentialAll ==
    ModuleSegs(Cat([k \in 1..Len(PROMPT_ORDER) |-> handle_module(PROMPT_ORDER[k], Vars)]))

\* C1: the segments get_prompt collects for `all` from the concurrent
\* evaluation of PROMPT_ORDER are, whatever order the items finished in, the
\* modules' segments concatenated in PROMPT_ORDER order.
C1_OrderedCollect == IsMapped("all") => mapped["all"] = <<SequentialAll>>

\* C1 witness: `all` is mapped after the items finished in reverse order,
\* the first and the last with segments
C1_Witness ==
    /\ IsMapped("all")
    /\ completion = <<3, 2, 1>>
    /\ results[1] # <<>>
    /\ results[3] # <<>>

\* the segments in segs that are of module name
SegsOf(segs, name) == SelectSeq(segs, LAMBDA sg : sg.of = name)

\* the modules of ms named name
ModulesNamed(ms, name) == SelectSeq(ms, LAMBDA m : m.name = name)

\* the item of PROMPT_ORDER that is `custom`
CustomItem == CHOOSE k \in 1..Len(PROMPT_ORDER) : PROMPT_ORDER[k] = "custom"

\* `custom` has been resolved: by get_prompt for the variable `custom`, or by
\* compute_modules for `custom` or `all`
CustomResolved ==
    \/ IsMapped("custom")
    \/ cmd = "modules" /\ p_pc = "done" /\ format.ok /\ Vars \cap {"custom", "all"} # {}

\* C2: when the template names custom.X, resolving `custom` never yields X,
\* so X is computed at most once, by its explicit reference; every other
\* configured custom module that is not disabled and not named in the
\* template is computed by `custom`.
C2_NoDuplicateCustom ==
    \A id \in {"foo", "bar"} :
        LET name == CustomName(id)
        IN  /\ name \in Vars =>
                /\ mapped["custom"] # <<>> => SegsOf(mapped["custom"][1], name) = <<>>
                /\ SegsOf(results[CustomItem], name) = <<>>
                /\ calls[name] <= 1
                /\ Len(ModulesNamed(prompt_order, name)) <= 1
            /\ (CustomResolved /\ name \notin Vars /\ custom_cfg[id] \notin {"absent", "true"}) =>
                /\ calls[name] >= 1
                /\ (IsMapped("custom") /\ name \notin absent) =>
                       SegsOf(mapped["custom"][1], name) = ModuleSegments(name)
                /\ (cmd = "modules" /\ name \notin absent) =>
                       ModulesNamed(prompt_order, name) # <<>>

\* C2 witness: "$custom $custom.foo" rendered with foo and bar configured and
\* enabled: bar came from `custom`, foo from its explicit reference
C2_Witness ==
    /\ PromptParsed
    /\ p_pc = "done"
    /\ Vars = {"custom", "custom.foo"}
    /\ calls["custom.foo"] = 1
    /\ calls["custom.bar"] = 1
    /\ SegsOf(mapped["custom"][1], "custom.bar") # <<>>
    /\ SegsOf(mapped["custom.foo"][1], "custom.foo") # <<>>

\* the modules the configuration marks disabled
MarkedDisabled == disabled \cup {CustomName(id) : id \in {i \in {"foo", "bar"} : custom_cfg[i] = "true"}}

\* every segment get_prompt holds: mapped to a variable or returned by an item
HeldSegments ==
    Cat([k \in 1..Len(VAR_ORDER) |->
            IF mapped[VAR_ORDER[k]] = <<>> THEN <<>> ELSE mapped[VAR_ORDER[k]][1]])
        \o Cat([k \in 1..Len(PROMPT_ORDER) |-> results[k]])

\* C3: a module marked disabled is never passed to its collaborator and adds
\* no module and no segment, by whichever path it is reached (its name,
\* `all`, `custom.<id>`, `custom`), in get_prompt and in compute_modules.
C3_DisabledNeverRuns ==
    cmd \in {"prompt", "modules"} =>
        \A name \in MarkedDisabled :
            /\ calls[name] = 0
            /\ SegsOf(HeldSegments, name) = <<>>
            /\ ModulesNamed(prompt_order, name) = <<>>

\* C3 witness: "$all$custom.bar" rendered with directory and custom.bar
\* disabled, foo enabled and computed
C3_Witness ==
    /\ PromptParsed
    /\ p_pc = "done"
    /\ Vars = {"all", "custom.bar"}
    /\ "directory" \in disabled
    /\ custom_cfg["bar"] = "true"
    /\ calls["custom.foo"] = 1
    /\ raw # <<>>

RECURSIVE EscapedForTcsh(_)
\* text with every "!" preceded by a backslash and every newline replaced by
\* a space, a backslash and "n"
EscapedForTcsh(text) ==
    IF text = <<>> THEN <<>>
    ELSE (CASE Head(text) = 33 -> <<92, 33>>
            [] Head(text) = 10 -> <<32, 92, 110>>
            [] OTHER -> <<Head(text)>>) \o EscapedForTcsh(Tail(text))

\* get_prompt has rendered the prompt
Rendered == PromptParsed /\ p_pc = "done"

\* C4: for tcsh the returned string is the fully rendered string (styled,
\* after the optional leading newline) with every "!" escaped and every
\* newline replaced by space, backslash, "n": it holds no newline and no "!"
\* without a backslash before it, and "a!b" newline "c" becomes
\* "a\!b \nc"; for every other shell the rendered string is returned as is.
C4_TcshEscapes ==
    Rendered =>
        /\ raw = (IF shell = "fish" THEN <<27, 91, 74>> ELSE <<>>)
                    \o (IF add_newline THEN <<10>> ELSE <<>>)
                    \o AnsiStrings(ParseFormat(format, mapped))
        /\ shell = "tcsh" =>
              /\ buf = EscapedForTcsh(raw)
              /\ \A k \in 1..Len(buf) :
                    /\ buf[k] # 10
                    /\ buf[k] = 33 => (k > 1 /\ buf[k - 1] = 92)
              /\ raw = <<97, 33, 98, 10, 99>> => buf = <<97, 92, 33, 98, 32, 92, 110, 99>>
        /\ shell # "tcsh" => buf = raw

\* C4 witness: tcsh rendered text with a styled segment, a "!" and the
\* leading newline
C4_Witness ==
    /\ Rendered
    /\ shell = "tcsh"
    /\ add_newline
    /\ \E k \in 1..Len(raw) : raw[k] = 27
    /\ \E k \in 1..Len(raw) : raw[k] = 33

\* get_prompt returned because the format does not parse
ParseFailed == cmd = "prompt" /\ p_pc = "done" /\ ~term_dumb /\ ~format.ok

\* no collaborator has been invoked
NothingEvaluated == \A n \in CollabNames : calls[n] = 0

\* C5 as stated: when the format does not parse get_prompt returns the single
\* character ">" for every shell and add_newline setting.
C5_AsStated == ParseFailed => buf = <<62>>

\* C5 (amended): when the format does not parse (and TERM is not dumb)
\* get_prompt returns ">", preceded for fish, and only for fish, by the
\* clear-screen sequence ESC "[J", whatever add_newline is; it evaluates no
\* module and never returns an empty string; compute_modules returns an
\* empty list.
C5_ParseFailureFallback ==
    /\ ParseFailed =>
          /\ buf = IF shell = "fish" THEN <<27, 91, 74, 62>> ELSE <<62>>
          /\ buf # <<>>
          /\ NothingEvaluated
          /\ HeldSegments = <<>>
    /\ (cmd = "modules" /\ p_pc = "done" /\ ~format.ok) =>
          /\ prompt_order = <<>>
          /\ NothingEvaluated

\* C5 witness: the format does not parse under fish with add_newline set
C5_Witness == ParseFailed /\ shell = "fish" /\ add_newline

====
